---- MODULE Spec2Model ----
(***************************************************************************)
(* Shape store of fj-kernel: the Geometry facet (add_point, add_curve,      *)
(* add_surface, transform, handle_for), merging of topological objects      *)
(* (TopoObject::merge_into) and the part of the Topology facet these use.   *)
(***************************************************************************)
EXTENDS Integers, Sequences, FiniteSets, TLC

VARIABLES points, curves, surfaces, faces, vertices, last

vars == <<points, curves, surfaces, faces, vertices, last>>

(* ------------------------------ bounds --------------------------------- *)

MaxPoints == 2

MaxCurves == 1

MaxSurfaces == 1

MaxFaces == 1

\* Coordinates and vector components stay within -CoordMax..CoordMax.
CoordMax == 1

(* ------------------------------ values --------------------------------- *)

\* Squared minimum distance of the shape, in grid units.
MinDistance2 == 2

Coords == (0 - CoordMax)..CoordMax

InCoords(p) == p[1] \in Coords /\ p[2] \in Coords

Origin == <<0, 0>>

Dist2(p, q) == (p[1] - q[1]) * (p[1] - q[1]) + (p[2] - q[2]) * (p[2] - q[2])

Near(p, q) == Dist2(p, q) < MinDistance2

Line(o, d) == [origin |-> o, direction |-> d]

XAxis == Line(Origin, <<1, 0>>)

SweptCurve(c, v) == [curve |-> c, path |-> v]

XYPlane == SweptCurve(XAxis, <<0, 1>>)

Tri0 == <<Origin, <<1, 0>>, <<0, 1>>>>

PointInputs == {Origin, <<1, 0>>, <<0 - 1, 1>>}

CurveInputs == {XAxis}

SurfaceInputs == {XYPlane}

(* ------------------------------ handles -------------------------------- *)

Handle(i) == [shape |-> "this", slot |-> i]

ForeignHandle == [shape |-> "other", slot |-> 1]

NoHandle == [shape |-> "none", slot |-> 0]

Contains(store, h) == h.shape = "this" /\ h.slot \in 1..Len(store)

Get(store, h) == store[h.slot]

Handles(store) == {Handle(i) : i \in 1..Len(store)}

(* ------------------------------ results -------------------------------- *)

Some(h) == [tag |-> "Some", handle |-> h, err |-> ""]

None == [tag |-> "None", handle |-> NoHandle, err |-> ""]

Ok(h) == [tag |-> "Ok", handle |-> h, err |-> ""]

Err(e) == [tag |-> "Err", handle |-> NoHandle, err |-> e]

Unit == [tag |-> "Unit", handle |-> NoHandle, err |-> ""]

Panic == [tag |-> "Panic", handle |-> NoHandle, err |-> "not yet implemented"]

Call(op, arg, res) == [op |-> op, arg |-> arg, res |-> res]

\* A panic unwinds out of the caller: no operation follows it.
Running == last.res.tag # "Panic"

(* ----------------------------- transforms ------------------------------ *)

Affine(a, b, c, d, tx, ty) == [a |-> a, b |-> b, c |-> c, d |-> d, tx |-> tx, ty |-> ty]

Translation(tx, ty) == Affine(1, 0, 0, 1, tx, ty)

ShearXY == Affine(1, 1, 0, 1, 0, 0)

Det(T) == T.a * T.d - T.b * T.c

TransformVector(T, v) == <<T.a * v[1] + T.b * v[2], T.c * v[1] + T.d * v[2]>>

TransformPoint(T, p) == <<T.a * p[1] + T.b * p[2] + T.tx, T.c * p[1] + T.d * p[2] + T.ty>>

\* Inverse of a transform whose linear part has determinant 1 or -1.
Inverse(T) ==
  LET ia == Det(T) * T.d
      ib == 0 - Det(T) * T.b
      ic == 0 - Det(T) * T.c
      id == Det(T) * T.a
  IN  Affine(ia, ib, ic, id,
             0 - (ia * T.tx + ib * T.ty), 0 - (ic * T.tx + id * T.ty))

TransformTriangle(T, t) == [k \in 1..3 |-> TransformPoint(T, t[k])]

TransformCurve(T, c) == Line(TransformPoint(T, c.origin), TransformVector(T, c.direction))

TransformSurface(T, s) == SweptCurve(TransformCurve(T, s.curve), TransformVector(T, s.path))

Transforms ==
  {Translation(1, 0), Translation(0 - 1, 0), ShearXY, Inverse(ShearXY)}

(* ------------------------------- faces --------------------------------- *)

Triangles(ts) == [rep |-> "Triangles", triangles |-> ts, surface |-> NoHandle]

FaceOn(s) == [rep |-> "Face", triangles |-> <<>>, surface |-> s]

(* ------------------------------- state --------------------------------- *)

Shape == [points |-> points, curves |-> curves, surfaces |-> surfaces,
          faces |-> faces, vertices |-> vertices]

Init ==
  /\ points = <<>>
  /\ curves = <<>>
  /\ surfaces = <<>>
  /\ faces = <<>>
  /\ vertices = <<>>
  /\ last = Call("new", Unit, Unit)

(* --------------------------- Geometry facet ---------------------------- *)

\* The shape after an operation, with what the operation returned.
Outcome(S, res) == [shape |-> S, res |-> res]

Becomes(S) ==
  /\ points' = S.points
  /\ curves' = S.curves
  /\ surfaces' = S.surfaces
  /\ faces' = S.faces
  /\ vertices' = S.vertices

\* add_point that hands out the handle of an equal point already stored.
GeoAddPointDeduplicating(S, point) ==
  IF \E i \in 1..Len(S.points) : S.points[i] = point
  THEN Outcome(S, Some(Handle(CHOOSE i \in 1..Len(S.points) : S.points[i] = point)))
  ELSE Outcome([S EXCEPT !.points = Append(@, point)], Some(Handle(Len(S.points) + 1)))

\* add_point that inserts at the front, moving every slot by one.
GeoAddPointAtFront(S, point) ==
  Outcome([S EXCEPT !.points = <<point>> \o @], Some(Handle(1)))

GeoAddPoint(S, point) ==
  Outcome([S EXCEPT !.points = Append(@, point)], Some(Handle(Len(S.points) + 1)))

GeoAddCurve(S, curve) ==
  Outcome([S EXCEPT !.curves = Append(@, curve)], Some(Handle(Len(S.curves) + 1)))

GeoAddSurface(S, surface) ==
  Outcome([S EXCEPT !.surfaces = Append(@, surface)], Some(Handle(Len(S.surfaces) + 1)))

AddPoint(point) ==
  /\ Running
  /\ Len(points) < MaxPoints
  /\ Becomes(GeoAddPoint(Shape, point).shape)
  /\ last' = Call("add_point", point, GeoAddPoint(Shape, point).res)

AddCurve(curve) ==
  /\ Running
  /\ Len(curves) < MaxCurves
  /\ Becomes(GeoAddCurve(Shape, curve).shape)
  /\ last' = Call("add_curve", curve, GeoAddCurve(Shape, curve).res)

AddSurface(surface) ==
  /\ Running
  /\ Len(surfaces) < MaxSurfaces
  /\ Becomes(GeoAddSurface(Shape, surface).shape)
  /\ last' = Call("add_surface", surface, GeoAddSurface(Shape, surface).res)

\* The loop writing the transformed first point into every slot.
TransformedPointsOfFirst(ps, T) == [i \in 1..Len(ps) |-> TransformPoint(T, ps[1])]

TransformedPoints(ps, T) == [i \in 1..Len(ps) |-> TransformPoint(T, ps[i])]

TransformedCurves(cs, T) == [i \in 1..Len(cs) |-> TransformCurve(T, cs[i])]

TransformedSurfaces(ss, T) == [i \in 1..Len(ss) |-> TransformSurface(T, ss[i])]

\* transform without the pass over the triangle faces.
TransformedFacesSkipped(fs, T) == fs

TransformedFaces(fs, T) ==
  [i \in 1..Len(fs) |->
     IF fs[i].rep = "Triangles"
     THEN [fs[i] EXCEPT !.triangles =
             [k \in 1..Len(fs[i].triangles) |-> TransformTriangle(T, fs[i].triangles[k])]]
     ELSE fs[i]]

TransformShape(S, T) ==
  [S EXCEPT !.points = TransformedPoints(S.points, T),
            !.curves = TransformedCurves(S.curves, T),
            !.surfaces = TransformedSurfaces(S.surfaces, T),
            !.faces = TransformedFaces(S.faces, T)]

\* Every coordinate of every payload of S is within the modelled range.
InRange(S) ==
  /\ \A i \in 1..Len(S.points) : InCoords(S.points[i])
  /\ \A i \in 1..Len(S.curves) :
       InCoords(S.curves[i].origin) /\ InCoords(S.curves[i].direction)
  /\ \A i \in 1..Len(S.surfaces) :
       /\ InCoords(S.surfaces[i].curve.origin)
       /\ InCoords(S.surfaces[i].curve.direction)
       /\ InCoords(S.surfaces[i].path)
  /\ \A i \in 1..Len(S.faces) : \A k \in 1..Len(S.faces[i].triangles) :
       \A n \in 1..3 : InCoords(S.faces[i].triangles[k][n])

Transform(T) ==
  /\ Running
  /\ InRange(TransformShape(Shape, T))
  /\ Becomes(TransformShape(Shape, T))
  /\ last' = Call("transform", Unit, Unit)

Matches(store, object) == {i \in 1..Len(store) : store[i] = object}

Least(S) == CHOOSE i \in S : \A j \in S : i <= j

\* handle_for returning the last equal slot instead of the first.
HandleForLast(store, object) ==
  IF Matches(store, object) = {} THEN None
  ELSE Some(Handle(CHOOSE i \in Matches(store, object) :
                     \A j \in Matches(store, object) : j <= i))

HandleFor(store, object) ==
  IF Matches(store, object) = {} THEN None
  ELSE Some(Handle(Least(Matches(store, object))))

\* The store handle_for picks for the type of the queried object.
StoreOf(S, kind) ==
  CASE kind = "point" -> S.points
    [] kind = "curve" -> S.curves
    [] kind = "surface" -> S.surfaces

HandleForCall(kind, object) ==
  /\ Running
  /\ last' = Call("handle_for", [kind |-> kind, object |-> object],
                  HandleFor(StoreOf(Shape, kind), object))
  /\ UNCHANGED <<points, curves, surfaces, faces, vertices>>

(* --------------------------- Topology facet ---------------------------- *)

VertexAt(h) == [point |-> h]

\* The point of a vertex of this shape.
PointOf(S, v) == Get(S.points, v.point)

TopoAddVertex(S, v) ==
  IF ~Contains(S.points, v.point)
  THEN Outcome(S, Err("StructuralMissing"))
  ELSE IF \E i \in 1..Len(S.vertices) : Near(PointOf(S, v), PointOf(S, S.vertices[i]))
  THEN Outcome(S, Err("GeometricDuplicate"))
  ELSE Outcome([S EXCEPT !.vertices = Append(@, v)], Ok(Handle(Len(S.vertices) + 1)))

TopoAddFace(S, f) ==
  IF f.rep = "Face" /\ ~Contains(S.surfaces, f.surface)
  THEN Outcome(S, Err("StructuralMissing"))
  ELSE IF f.rep = "Face" /\ \E i \in 1..Len(S.faces) : S.faces[i] = f
  THEN Outcome(S, Err("TopologicalDuplicate"))
  ELSE Outcome([S EXCEPT !.faces = Append(@, f)], Ok(Handle(Len(S.faces) + 1)))

AddVertex(h) ==
  /\ Running
  /\ Becomes(TopoAddVertex(Shape, VertexAt(h)).shape)
  /\ last' = Call("add_vertex", h, TopoAddVertex(Shape, VertexAt(h)).res)

AddFace(f) ==
  /\ Running
  /\ TopoAddFace(Shape, f).res.tag = "Ok" => Len(faces) < MaxFaces
  /\ Becomes(TopoAddFace(Shape, f).shape)
  /\ last' = Call("add_face", f, TopoAddFace(Shape, f).res)

FaceInputs ==
  {Triangles(<<Tri0>>)} \cup {FaceOn(h) : h \in Handles(surfaces) \cup {ForeignHandle}}

(* ------------------------------- merge --------------------------------- *)

\* merge_into pushing the vertex as it is, its point handle still foreign.
VertexMergeIntoUnhomed(S, point) ==
  Outcome([S EXCEPT !.vertices = Append(@, VertexAt(ForeignHandle))],
          Ok(Handle(Len(S.vertices) + 1)))

\* Vertex::merge_into for a vertex whose point() is `point`.
VertexMergeInto(S, point) ==
  IF HandleFor(S.points, point).tag = "None"
  THEN LET added == GeoAddPoint(S, point)
       IN  TopoAddVertex(added.shape, VertexAt(added.res.handle))
  ELSE Outcome(S, Panic)

EdgeMergeInto(S) == Outcome(S, Panic)

CycleMergeInto(S) == Outcome(S, Panic)

FaceMergeInto(S) == Outcome(S, Panic)

MergeVertex(point) ==
  /\ Running
  /\ Len(VertexMergeInto(Shape, point).shape.points) <= MaxPoints
  /\ Becomes(VertexMergeInto(Shape, point).shape)
  /\ last' = Call("merge_vertex", point, VertexMergeInto(Shape, point).res)

MergeEdge ==
  /\ Running
  /\ Becomes(EdgeMergeInto(Shape).shape)
  /\ last' = Call("merge_edge", Unit, EdgeMergeInto(Shape).res)

MergeCycle ==
  /\ Running
  /\ Becomes(CycleMergeInto(Shape).shape)
  /\ last' = Call("merge_cycle", Unit, CycleMergeInto(Shape).res)

MergeFace ==
  /\ Running
  /\ Becomes(FaceMergeInto(Shape).shape)
  /\ last' = Call("merge_face", Unit, FaceMergeInto(Shape).res)

Next ==
  \/ \E p \in PointInputs : AddPoint(p)
  \/ \E c \in CurveInputs : AddCurve(c)
  \/ \E s \in SurfaceInputs : AddSurface(s)
  \/ \E T \in Transforms : Transform(T)
  \/ \E p \in {Origin, <<1, 0>>} : HandleForCall("point", p)
  \/ HandleForCall("curve", XAxis)
  \/ HandleForCall("surface", XYPlane)
  \/ \E h \in Handles(points) \cup {ForeignHandle} : AddVertex(h)
  \/ \E f \in FaceInputs : AddFace(f)
  \/ \E p \in PointInputs : MergeVertex(p)
  \/ MergeEdge
  \/ MergeCycle
  \/ MergeFace

Spec == Init /\ [][Next]_vars

(* ------------------------------ claims --------------------------------- *)

VertexPoint(i) == Get(points, vertices[i].point)

NearPoints(p) == {i \in 1..Len(points) : Near(points[i], p)}

NearVertices(p) == {i \in 1..Len(vertices) : Near(VertexPoint(i), p)}

\* C1 (as claimed): in every reachable state no two distinct vertices
\* reference points that lie within the minimum distance of each other.
C1_VertexUniqueness ==
  \A i, j \in 1..Len(vertices) : i # j => ~Near(VertexPoint(i), VertexPoint(j))

\* C2 (as claimed): an add_vertex or a vertex merge that returns a
\* validation error leaves every store as it was before the call.
C2_NoPartialInsertion ==
  [][(last'.op \in {"add_vertex", "merge_vertex"} /\ last'.res.tag = "Err")
       => Shape' = Shape]_vars

\* C3 (as claimed): a vertex merge adds a new point only when no stored
\* point is within the minimum distance, otherwise it reuses that point;
\* it returns the handle of an equivalent vertex when there is one and
\* never returns GeometricDuplicate.
C3_MergeReuses ==
  [][last'.op = "merge_vertex" =>
       LET p == last'.arg
           r == last'.res
       IN  /\ r # Err("GeometricDuplicate")
           /\ NearPoints(p) # {} =>
                /\ points' = points
                /\ r.tag = "Ok"
                /\ vertices'[r.handle.slot].point.slot \in NearPoints(p)
           /\ NearVertices(p) # {} =>
                /\ r.tag = "Ok"
                /\ r.handle.slot \in NearVertices(p)
                /\ vertices' = vertices
           /\ points' # points => NearPoints(p) = {}]_vars

\* C4 (as claimed): merging the same vertex a second time, right after a
\* merge of it that succeeded, completes, returns the same handle and
\* leaves every store as the first merge left it.
C4_MergeIdempotent ==
  [][(/\ last.op = "merge_vertex"
      /\ last.res.tag = "Ok"
      /\ last'.op = "merge_vertex"
      /\ last'.arg = last.arg)
       => (last'.res = last.res /\ Shape' = Shape)]_vars

ReferentialIntegrity(S) ==
  /\ \A i \in 1..Len(S.vertices) : Contains(S.points, S.vertices[i].point)
  /\ \A i \in 1..Len(S.faces) :
       S.faces[i].rep = "Face" => Contains(S.surfaces, S.faces[i].surface)

SlotsKept(old, new, f(_)) ==
  /\ Len(new) >= Len(old)
  /\ \A i \in 1..Len(old) : new[i] = f(old[i])

Same(x) == x

TransformedFace(T, f) ==
  IF f.rep = "Triangles"
  THEN [f EXCEPT !.triangles = [k \in 1..Len(@) |-> TransformTriangle(T, @[k])]]
  ELSE f

\* C6: no step removes or moves a slot of any store, so every handle issued
\* before the step still resolves to its slot; a step other than transform
\* leaves the payload of every existing slot as it was, and transform keeps
\* the number of slots and leaves in each geometric slot the transform of
\* the payload it held.
C6_HandleStability ==
  [][/\ SlotsKept(vertices, vertices', Same)
     /\ last'.op # "transform" =>
          /\ SlotsKept(points, points', Same)
          /\ SlotsKept(curves, curves', Same)
          /\ SlotsKept(surfaces, surfaces', Same)
          /\ SlotsKept(faces, faces', Same)
     /\ last'.op = "transform" =>
          \E T \in Transforms :
            /\ SlotsKept(points, points', LAMBDA p : TransformPoint(T, p))
            /\ SlotsKept(curves, curves', LAMBDA c : TransformCurve(T, c))
            /\ SlotsKept(surfaces, surfaces', LAMBDA s : TransformSurface(T, s))
            /\ SlotsKept(faces, faces', LAMBDA f : TransformedFace(T, f))
            /\ Len(points') = Len(points)
            /\ Len(curves') = Len(curves)
            /\ Len(surfaces') = Len(surfaces)
            /\ Len(faces') = Len(faces)]_vars

C6_Witness ==
  /\ last.op = "transform"
  /\ Len(points) = 2
  /\ Len(curves) = 1
  /\ Len(surfaces) = 1
  /\ Len(vertices) = 1
  /\ curves[1] # XAxis
  /\ points[1] \notin PointInputs

\* C7: handle_for changes no store; it returns a handle exactly when the
\* store of the queried kind holds a payload equal to the query, and then
\* the handle of the first such slot of this shape; on an empty store it
\* returns none.
C7_HandleFor ==
  [][last'.op = "handle_for" =>
       LET store == StoreOf(Shape, last'.arg.kind)
           object == last'.arg.object
           r == last'.res
       IN  /\ Shape' = Shape
           /\ r.tag \in {"Some", "None"}
           /\ r.tag = "Some" <=> \E i \in 1..Len(store) : store[i] = object
           /\ r.tag = "Some" =>
                /\ Contains(store, r.handle)
                /\ Get(store, r.handle) = object
                /\ \A j \in 1..(r.handle.slot - 1) : store[j] # object
           /\ r.tag = "None" => r = None
           /\ Len(store) = 0 => r = None]_vars

C7_Witness ==
  /\ last.op = "handle_for"
  /\ last.arg.kind = "point"
  /\ last.res = Some(Handle(1))
  /\ Len(points) = 2
  /\ points[1] = points[2]

\* C8: add_point, add_curve and add_surface append exactly one slot holding
\* the given value to the store of their kind, change nothing else, and
\* return the handle of the new slot, which no earlier handle equals, also
\* when an equal payload is already stored.
C8_GeometryInsertion ==
  [][/\ last'.op = "add_point" =>
          /\ Shape' = [Shape EXCEPT !.points = Append(@, last'.arg)]
          /\ last'.res = Some(Handle(Len(points) + 1))
          /\ last'.res.handle \notin Handles(points)
     /\ last'.op = "add_curve" =>
          /\ Shape' = [Shape EXCEPT !.curves = Append(@, last'.arg)]
          /\ last'.res = Some(Handle(Len(curves) + 1))
          /\ last'.res.handle \notin Handles(curves)
     /\ last'.op = "add_surface" =>
          /\ Shape' = [Shape EXCEPT !.surfaces = Append(@, last'.arg)]
          /\ last'.res = Some(Handle(Len(surfaces) + 1))
          /\ last'.res.handle \notin Handles(surfaces)]_vars

C8_Witness ==
  /\ last.op = "add_point"
  /\ last.res = Some(Handle(2))
  /\ points[1] = points[2]

\* C9: a transform step replaces the payload of every point, curve and
\* surface slot by the transform of the payload it held, maps every triangle
\* of every triangle face, and changes nothing else: the other faces, the
\* vertices and the number and order of slots of every store.
C9_TransformEffect ==
  [][last'.op = "transform" =>
       /\ last'.res = Unit
       /\ \E T \in Transforms :
            /\ points' = [i \in 1..Len(points) |-> TransformPoint(T, points[i])]
            /\ curves' = [i \in 1..Len(curves) |-> TransformCurve(T, curves[i])]
            /\ surfaces' = [i \in 1..Len(surfaces) |-> TransformSurface(T, surfaces[i])]
            /\ faces' = [i \in 1..Len(faces) |-> TransformedFace(T, faces[i])]
            /\ vertices' = vertices]_vars

C9_Witness ==
  /\ last.op = "transform"
  /\ Len(points) = 2
  /\ points[1] = points[2]
  /\ Len(curves) = 1
  /\ Len(surfaces) = 1
  /\ Len(vertices) = 1
  /\ \E i \in 1..Len(faces) : faces[i].rep = "Triangles" /\ faces[i].triangles[1] # Tri0

====
